---- MODULE Spec2Model ----
(***************************************************************************)
(* Model of server.py: the bounded-concurrency URL status checker.         *)
(*                                                                         *)
(*   fetch_status(session, url, semaphore)   one probe task               *)
(*   check_urls(urls)                        gate, gather, categorisation *)
(*                                                                         *)
(* One batch is one call of check_urls on an asyncio event loop.  The      *)
(* event loop runs one task at a time and switches tasks only at an        *)
(* await, so every action below is the code between two awaits.            *)
(***************************************************************************)
EXTENDS Integers, Sequences, FiniteSets, TLC

VARIABLES
    urls,            \* the argument of check_urls: a list of URLs
    world,           \* how the remote servers of this batch behave
    pc,              \* position of check_urls
    semaphore,       \* asyncio.Semaphore: [value, waiters]
    tasks,           \* the coroutines handed to gather, one per URL
    started,         \* number of tasks whose first step has run
    results,         \* what gather returned
    status_results,  \* the dict built by the categorisation loop
    now,             \* the clock of the event loop, in seconds
    request,         \* the upload POSTed to /extract
    handler,         \* extract_urls: its position and its locals
    response,        \* what extract_urls returned
    other            \* a second call of check_urls, on another thread

\* What lies outside one batch; no step of a batch changes it.
outside == <<now, request, handler, response, other>>

vars == <<urls, world, pc, semaphore, tasks, started, results, status_results, outside>>

----------------------------------------------------------------------------
(* Bounds of the model *)

\* largest batch; above SemaphoreLimit so that probes have to queue
MaxUrls == 12

\* slowest server, in seconds; above RequestTimeout so that timers fire
MaxLatency == 7

\* most files in one upload
MaxFiles == 2

\* most URLs of the second of two concurrent batches
MaxOtherUrls == 2

(* Program constants *)

\* asyncio.Semaphore(10)
SemaphoreLimit == 10

\* session.get(url, timeout=5)
RequestTimeout == 5

----------------------------------------------------------------------------
(* Python values *)

\* A status as fetch_status returns it: an int (response.status) or a str.
PyInt(n) == [isint |-> TRUE, n |-> n, s |-> ""]
PyStr(s) == [isint |-> FALSE, n |-> 0, s |-> s]

\* f"error: {str(e)}"
FormatError(msg) == "error: " \o msg

\* The ways `session.get(url, timeout=5)` can end: a response with a status,
\* or an exception of some class raised out of the `async with`.
Response(n) == [kind |-> "response", status |-> n, exc |-> "", msg |-> ""]
Raise(cls, msg) == [kind |-> "raise", status |-> 0, exc |-> cls, msg |-> msg]

\* Base classes of the exception classes the request can raise.
Bases(cls) ==
    CASE cls = "ClientConnectorError" -> {"ClientConnectorError", "ClientError", "Exception"}
      [] cls = "InvalidURL"           -> {"InvalidURL", "ClientError", "ValueError", "Exception"}
      [] cls = "TimeoutError"         -> {"TimeoutError", "Exception"}
      [] cls = "UnicodeError"         -> {"UnicodeError", "ValueError", "Exception"}
      [] OTHER                        -> {cls}

IsInstance(cls, base) == base \in Bases(cls)

\* The behaviours of remote servers the batches are run against.
Exits == <<
    Response(200), Raise("ClientConnectorError", "refused"), Response(301),
    Raise("TimeoutError", ""), Response(302), Response(403),
    Raise("UnicodeError", "label too long"), Response(404), Response(500),
    Response(201), Response(503), Response(100), Response(303),
    Raise("InvalidURL", "www.x"), Response(400), Response(999) >>

\* A world fixes how the server of every URL behaves during the batch: the
\* exits are dealt to the URLs in turn, from every second place of the list.
Worlds == {w \in 0 .. (Len(Exits) - 1) : w % 2 = 0}

\* The exit of the request for `url` in the world `w`.
ExitOf(url, w) == Exits[((url + w) % Len(Exits)) + 1]

----------------------------------------------------------------------------
(* asyncio.Semaphore, as `async with semaphore` uses it.  A waiter is the   *)
(* future of a suspended acquire(); it is done once a release handed it a   *)
(* slot, and it stays in the deque until its task runs again.  No task of   *)
(* a batch is ever cancelled, so no waiter is a cancelled future.           *)

NewSemaphore(n) == [value |-> n, waiters |-> <<>>]

\* Mutant of Locked: the comparison lets one acquirer through at value 0.
LockedBelowZero(sem) == sem.value < 0 \/ Len(sem.waiters) > 0

\* Semaphore.locked(): no slot is free, or somebody is already queued.
Locked(sem) == sem.value = 0 \/ Len(sem.waiters) > 0

HasPending(sem) == \E k \in 1 .. Len(sem.waiters) : ~sem.waiters[k].done

FirstPending(sem) ==
    CHOOSE k \in 1 .. Len(sem.waiters) :
        /\ ~sem.waiters[k].done
        /\ \A j \in 1 .. (k - 1) : sem.waiters[j].done

\* Mutant of WakeUpNext: a release wakes nobody up.
WakeUpNextNobody(sem) == sem

\* Semaphore._wake_up_next(): hand a slot to the first waiter that is not done.
WakeUpNext(sem) ==
    IF HasPending(sem)
    THEN [value |-> sem.value - 1,
          waiters |-> [sem.waiters EXCEPT ![FirstPending(sem)].done = TRUE]]
    ELSE sem

\* Mutant of Release: the counter is not incremented.
ReleaseWithoutIncrement(sem) == WakeUpNext(sem)

\* Semaphore.release()
Release(sem) == WakeUpNext([sem EXCEPT !.value = @ + 1])

\* acquire(), fast path: `if not self.locked(): self._value -= 1`
TakeSlot(sem) == [sem EXCEPT !.value = @ - 1]

\* acquire(), slow path: append a future to the deque and await it
Enqueue(sem, i) == [sem EXCEPT !.waiters = Append(@, [task |-> i, done |-> FALSE])]

RECURSIVE WakeUpWhile(_)
\* acquire(), after the await: `while self._value > 0: self._wake_up_next()`
WakeUpWhile(sem) ==
    IF sem.value > 0 /\ HasPending(sem) THEN WakeUpWhile(WakeUpNext(sem)) ELSE sem

\* acquire(), after the await: `self._waiters.remove(fut)`, then wake up others
Dequeue(sem, i) ==
    WakeUpWhile([sem EXCEPT !.waiters = SelectSeq(@, LAMBDA w : w.task # i)])

IsWaiter(sem, i, done) ==
    \E k \in 1 .. Len(sem.waiters) :
        sem.waiters[k].task = i /\ sem.waiters[k].done = done

----------------------------------------------------------------------------
(* fetch_status *)

\* Mutant of FetchStatus: only `except aiohttp.ClientError`.
FetchStatusClientErrorOnly(url, exit) ==
    IF exit.kind = "response"
    THEN [raised |-> FALSE, url |-> url, status |-> PyInt(exit.status)]
    ELSE IF IsInstance(exit.exc, "ClientError")
    THEN [raised |-> FALSE, url |-> url, status |-> PyStr("error")]
    ELSE [raised |-> TRUE, url |-> url, status |-> PyStr(exit.exc)]

\* Mutant of FetchStatus: no `except Exception`.
FetchStatusNoCatchAll(url, exit) ==
    IF exit.kind = "response"
    THEN [raised |-> FALSE, url |-> url, status |-> PyInt(exit.status)]
    ELSE IF IsInstance(exit.exc, "ClientError")
    THEN [raised |-> FALSE, url |-> url, status |-> PyStr("error")]
    ELSE IF IsInstance(exit.exc, "TimeoutError")
    THEN [raised |-> FALSE, url |-> url, status |-> PyStr("timeout")]
    ELSE [raised |-> TRUE, url |-> url, status |-> PyStr(exit.exc)]

\* Mutant of FetchStatus: `except Exception` stands first.
FetchStatusCatchAllFirst(url, exit) ==
    IF exit.kind = "response"
    THEN [raised |-> FALSE, url |-> url, status |-> PyInt(exit.status)]
    ELSE IF IsInstance(exit.exc, "Exception")
    THEN [raised |-> FALSE, url |-> url, status |-> PyStr(FormatError(exit.msg))]
    ELSE [raised |-> TRUE, url |-> url, status |-> PyStr(exit.exc)]

\* The try/except of fetch_status applied to the way the request ended:
\* what the coroutine returns, or the exception it lets through.
FetchStatus(url, exit) ==
    IF exit.kind = "response"
    THEN [raised |-> FALSE, url |-> url, status |-> PyInt(exit.status)]
    ELSE IF IsInstance(exit.exc, "ClientError")
    THEN [raised |-> FALSE, url |-> url, status |-> PyStr("error")]
    ELSE IF IsInstance(exit.exc, "TimeoutError")
    THEN [raised |-> FALSE, url |-> url, status |-> PyStr("timeout")]
    ELSE IF IsInstance(exit.exc, "Exception")
    THEN [raised |-> FALSE, url |-> url, status |-> PyStr(FormatError(exit.msg))]
    ELSE [raised |-> TRUE, url |-> url, status |-> PyStr(exit.exc)]

\* `fetch_status(session, url, semaphore)`: a coroutine that has not run yet.
\* acquired, released and requests count what the task has done so far;
\* sent, deadline and ended are the times of its request.
NewTask(url) ==
    [url |-> url, pc |-> "created", status |-> PyStr(""),
     acquired |-> 0, released |-> 0, requests |-> 0,
     sent |-> 0, deadline |-> RequestTimeout, ended |-> 0]

\* Mutant of CreateTasks: every coroutine is bound to the last URL.
CreateTasksLastUrl(us) == [i \in 1 .. Len(us) |-> NewTask(us[Len(us)])]

\* tasks = [fetch_status(session, url, semaphore) for url in urls]
CreateTasks(us) == [i \in 1 .. Len(us) |-> NewTask(us[i])]

\* Mutant of SendRequest: the timer runs from the creation of the coroutine.
SendRequestTimerFromCreation(t) ==
    [t EXCEPT !.pc = "request", !.acquired = @ + 1, !.requests = @ + 1,
              !.sent = now]

\* The task has the slot: it calls session.get, which starts the timer of
\* the request, and waits for the network.
SendRequest(t) ==
    [t EXCEPT !.pc = "request", !.acquired = @ + 1, !.requests = @ + 1,
              !.sent = now, !.deadline = now + RequestTimeout]

\* The task leaves `async with semaphore` with a return value or an exception.
Finish(t, out) ==
    [t EXCEPT !.pc = IF out.raised THEN "raised" ELSE "done",
              !.url = out.url, !.status = out.status, !.released = @ + 1,
              !.ended = now]

----------------------------------------------------------------------------
(* check_urls *)

BucketKeys == {"200", "301_302", "403", "404", "500+", "error"}

\* Mutant of EmptyBuckets: the dict starts without keys.
EmptyBucketsNoKeys == [k \in {} |-> <<>>]

\* status_results = {"200": [], "301_302": [], ...}
EmptyBuckets == [k \in BucketKeys |-> <<>>]

\* Mutant of Bucket: `status > 500`.
BucketAbove500(status) ==
    IF status.isint /\ status.n = 200 THEN "200"
    ELSE IF status.isint /\ status.n \in {301, 302} THEN "301_302"
    ELSE IF status.isint /\ status.n = 403 THEN "403"
    ELSE IF status.isint /\ status.n = 404 THEN "404"
    ELSE IF status.isint /\ status.n > 500 THEN "500+"
    ELSE "error"

\* The if/elif chain of the categorisation loop.
Bucket(status) ==
    IF status.isint /\ status.n = 200 THEN "200"
    ELSE IF status.isint /\ status.n \in {301, 302} THEN "301_302"
    ELSE IF status.isint /\ status.n = 403 THEN "403"
    ELSE IF status.isint /\ status.n = 404 THEN "404"
    ELSE IF status.isint /\ status.n >= 500 THEN "500+"
    ELSE "error"

RECURSIVE CategoriseFrom(_, _, _)
\* `for url, status in results:` from the i-th pair on
CategoriseFrom(res, i, sr) ==
    IF i > Len(res) THEN sr
    ELSE CategoriseFrom(res, i + 1,
            [sr EXCEPT ![Bucket(res[i].status)] = Append(@, res[i].url)])

\* Mutant of Categorise: the loop skips the first result.
CategoriseSkipFirst(res) == CategoriseFrom(res, 2, EmptyBuckets)

\* The categorisation loop over the results of gather.
Categorise(res) == CategoriseFrom(res, 1, EmptyBuckets)

\* Mutant of GatherResults: the results come in the reverse order.
GatherResultsReversed(ts) ==
    [i \in 1 .. Len(ts) |->
        [url |-> ts[Len(ts) + 1 - i].url, status |-> ts[Len(ts) + 1 - i].status]]

\* What `await asyncio.gather(*tasks)` returns: the tasks' return values in
\* the order of the tasks.
GatherResults(ts) == [i \in 1 .. Len(ts) |-> [url |-> ts[i].url, status |-> ts[i].status]]

\* Mutant of AllDone: the wait ends with the first finished task.
FirstDone(ts) == \E i \in 1 .. Len(ts) : ts[i].pc = "done"

AllDone(ts) == \A i \in 1 .. Len(ts) : ts[i].pc = "done"
SomeRaised(ts) == \E i \in 1 .. Len(ts) : ts[i].pc = "raised"

----------------------------------------------------------------------------
(* The batches the model runs *)

\* Lists of distinct URLs, as `list(set(urls))` hands them over: in an order
\* of its own, here the URLs n, n-1, ..., 1.
Batch(n) == [i \in 1 .. n |-> n + 1 - i]

Batches == {Batch(n) : n \in 0 .. MaxUrls}

\* No upload: check_urls is run on a list of its own.
NoRequest == [has_files |-> FALSE, files |-> <<>>]

\* extract_urls at its first line.
NewHandler == [pc |-> "called", urls |-> <<>>, unique_urls |-> <<>>, loops |-> 0]

\* extract_urls has not returned.
NoResponse ==
    [code |-> 0, error |-> "", urls |-> <<>>, unique_urls |-> <<>>,
     status_results |-> [k \in {} |-> <<>>], csv_data |-> <<>>, json_data |-> <<>>]

\* No second call of check_urls.
NoOther ==
    [pc |-> "none", urls |-> <<>>, semaphore |-> NewSemaphore(0), tasks |-> <<>>,
     started |-> 0, status_results |-> [k \in {} |-> <<>>]]

\* check_urls has created the semaphore, the session and the coroutines and
\* is about to await gather.
Init ==
    /\ urls \in Batches
    /\ world \in Worlds
    /\ pc = "gather"
    /\ semaphore = NewSemaphore(SemaphoreLimit)
    /\ tasks = CreateTasks(urls)
    /\ started = 0
    /\ results = <<>>
    /\ status_results = [k \in {} |-> <<>>]
    /\ now = 0
    /\ request = NoRequest
    /\ handler = [NewHandler EXCEPT !.pc = "none"]
    /\ response = NoResponse
    /\ other = NoOther

\* The event loop runs the first step of the next task, in list order: it
\* enters `async with semaphore`, and either gets a slot and sends its
\* request or queues up.
Start ==
    /\ pc = "gather"
    /\ started < Len(tasks)
    /\ started' = started + 1
    /\ IF ~Locked(semaphore)
       THEN /\ semaphore' = TakeSlot(semaphore)
            /\ tasks' = [tasks EXCEPT ![started + 1] = SendRequest(@)]
       ELSE /\ semaphore' = Enqueue(semaphore, started + 1)
            /\ tasks' = [tasks EXCEPT ![started + 1].pc = "waiting"]
    /\ UNCHANGED <<urls, world, pc, results, status_results, outside>>

\* A queued task whose future is done runs again: it leaves acquire() with
\* the slot it was handed and sends its request.
Resume(i) ==
    /\ pc = "gather"
    /\ tasks[i].pc = "waiting"
    /\ IsWaiter(semaphore, i, TRUE)
    /\ semaphore' = Dequeue(semaphore, i)
    /\ tasks' = [tasks EXCEPT ![i] = SendRequest(@)]
    /\ UNCHANGED <<urls, world, pc, started, results, status_results, outside>>

\* The request of a task ends (response, error or timeout): the try/except
\* turns it into the return value, `async with semaphore` releases the slot
\* and the task is finished.
ResolveWith(i, exit) ==
    /\ pc = "gather"
    /\ tasks[i].pc = "request"
    /\ tasks' = [tasks EXCEPT ![i] = Finish(@, FetchStatus(@.url, exit))]
    /\ semaphore' = Release(semaphore)
    /\ UNCHANGED <<urls, world, pc, started, results, status_results>>

\* The request of the i-th task ends the way its server behaves.
Resolve(i) == ResolveWith(i, ExitOf(tasks[i].url, world)) /\ UNCHANGED outside

\* `results = await asyncio.gather(*tasks)`: returns the list of results when
\* every task is done, raises the first exception a task raised.
Gather ==
    /\ pc = "gather"
    /\ SomeRaised(tasks) \/ AllDone(tasks)
    /\ IF SomeRaised(tasks)
       THEN pc' = "raised" /\ results' = results
       ELSE pc' = "categorize" /\ results' = GatherResults(tasks)
    /\ UNCHANGED <<urls, world, semaphore, tasks, started, status_results, outside>>

\* The categorisation loop and `return status_results`.
Categorize ==
    /\ pc = "categorize"
    /\ status_results' = Categorise(results)
    /\ pc' = "returned"
    /\ UNCHANGED <<urls, world, semaphore, tasks, started, results, outside>>

Next ==
    \/ Start
    \/ \E i \in 1 .. Len(tasks) : Resume(i)
    \/ \E i \in 1 .. Len(tasks) : Resolve(i)
    \/ Gather
    \/ Categorize

Spec == Init /\ [][Next]_vars

\* The worlds the liveness specification runs in: between them every URL
\* position meets every exit of Exits at least once over the batch sizes.
LiveWorlds == {0, Len(Exits) \div 2}

LiveInit == Init /\ world \in LiveWorlds

\* The event loop runs every ready task, and every request ends: with a
\* response, an error, or the request's timeout.
FairSpec ==
    /\ LiveInit
    /\ [][Next]_vars
    /\ WF_vars(Start)
    /\ WF_vars(\E i \in 1 .. Len(tasks) : Resume(i))
    /\ WF_vars(\E i \in 1 .. Len(tasks) : Resolve(i))
    /\ WF_vars(Gather)
    /\ WF_vars(Categorize)

----------------------------------------------------------------------------
(* The batch with time: `timeout=5` gives every request a timer of          *)
(* RequestTimeout seconds that starts when session.get is called.           *)

\* Seconds the server of `url` takes to answer in the world `w`; a server
\* whose request ends in a timeout is one that takes longer than the timer.
ServerLatency(url, w) ==
    IF ExitOf(url, w).exc = "TimeoutError" THEN MaxLatency
    ELSE 1 + (((url + w) \div 4) % MaxLatency)

\* Seconds since the task called session.get.
Elapsed(t) == now - t.sent

\* The request of the task ends now: the server has answered or the timer
\* has run out.
Due(t) ==
    /\ t.pc = "request"
    /\ Elapsed(t) >= ServerLatency(t.url, world) \/ now >= t.deadline

\* How the request of the task ends now: asyncio.TimeoutError once the timer
\* has run out, else what the server does.
TimerExit(t) ==
    IF now >= t.deadline THEN Raise("TimeoutError", "")
    ELSE ExitOf(t.url, world)

\* The request of the i-th task ends when it is due.
TimedResolve(i) ==
    /\ Due(tasks[i])
    /\ ResolveWith(i, TimerExit(tasks[i]))
    /\ UNCHANGED outside

\* A second passes.  The event loop sleeps only when no task is ready to
\* run, so every task has started, no woken task is left and no request is
\* due.
Tick ==
    /\ pc = "gather"
    /\ started = Len(tasks)
    /\ \A i \in 1 .. Len(tasks) :
        /\ ~Due(tasks[i])
        /\ ~(tasks[i].pc = "waiting" /\ IsWaiter(semaphore, i, TRUE))
    /\ \E i \in 1 .. Len(tasks) : tasks[i].pc = "request"
    /\ now' = now + 1
    /\ UNCHANGED <<urls, world, pc, semaphore, tasks, started, results, status_results>>
    /\ UNCHANGED <<request, handler, response, other>>

TimedNext ==
    \/ Start
    \/ \E i \in 1 .. Len(tasks) : Resume(i)
    \/ \E i \in 1 .. Len(tasks) : TimedResolve(i)
    \/ Tick
    \/ Gather
    \/ Categorize

TimedSpec == Init /\ [][TimedNext]_vars

----------------------------------------------------------------------------
(* extract_urls, generate_csv, generate_json *)

\* The URLs of the uploads.  A word of an uploaded text is the number of one
\* of these URLs, or 0 for a word that URL_PATTERN does not match.
UrlText == <<"http://a.com/p", "http://a.com/p/", "http://a.com/P", "www.b.org/?q=1,2">>

\* The URL a normalisation (lower case, no trailing slash) would make of u.
Normalised(u) == <<1, 1, 1, 4>>[u]

\* The URL has a character that csv.writer quotes a field for: a comma.
NeedsQuoting(u) == u = 4

\* The texts of the uploaded files: empty, no URL, a URL twice, URLs that
\* differ by a trailing slash, by case, and one with a comma.
Texts == {<<>>, <<0>>, <<1, 0, 1>>, <<2, 1>>, <<3, 0>>, <<4, 3>>}

\* A file of the upload: a selected file, or the unnamed part a browser
\* sends for a file input without selection.
Files ==
    {[filename |-> "a.txt", text |-> t] : t \in Texts}
        \cup {[filename |-> "", text |-> <<>>], [filename |-> "", text |-> <<1>>]}

RECURSIVE SeqsUpTo(_, _)
\* The sequences of at most n elements of S.
SeqsUpTo(S, n) ==
    IF n = 0 THEN {<<>>}
    ELSE LET shorter == SeqsUpTo(S, n - 1) IN
         shorter \cup {Append(q, x) : q \in shorter, x \in S}

Requests ==
    {NoRequest} \cup {[has_files |-> TRUE, files |-> fs] : fs \in SeqsUpTo(Files, MaxFiles)}

\* re.findall(URL_PATTERN, text): the words the pattern matches, in order.
FindAll(text) == SelectSeq(text, LAMBDA w : w > 0)

RECURSIVE ExtendAll(_, _)
\* `for file in files: urls.extend(re.findall(...))` from the k-th file on
ExtendAll(files, k) ==
    IF k > Len(files) THEN <<>>
    ELSE FindAll(files[k].text) \o ExtendAll(files, k + 1)

\* Mutant of PySet: the URLs are normalised before they are compared.
PySetNormalised(list) == {Normalised(list[i]) : i \in 1 .. Len(list)}

\* set(urls): equal strings are one element
PySet(list) == {list[i] : i \in 1 .. Len(list)}

\* list(a_set): the elements of the set once each, in an order the hashes
\* of the strings decide: any order.
PyLists(S) ==
    {q \in [1 .. Cardinality(S) -> S] : \A i, j \in 1 .. Cardinality(S) : q[i] = q[j] => i = j}

\* `"files" not in request.files`
NoFiles(req) == ~req.has_files

\* Mutant of NoSelection: the filenames are not looked at.
NoSelectionEmptyListOnly(files) == Len(files) = 0

\* `not files or all(file.filename == "" for file in files)`
NoSelection(files) ==
    Len(files) = 0 \/ \A k \in 1 .. Len(files) : files[k].filename = ""

\* The keys of status_results in the order the dict literal gives them.
BucketOrder == <<"200", "301_302", "403", "404", "500+", "error">>

\* csv.writer writes a field with a comma between double quotes.
CsvField(u) == IF NeedsQuoting(u) THEN "\"" \o UrlText[u] \o "\"" ELSE UrlText[u]

\* writer.writerow([url, status]), without the line terminator
CsvRow(u, status) == CsvField(u) \o "," \o status

RECURSIVE CsvRowsFrom(_, _)
\* `for status, urls in data.items():` from the k-th key on
CsvRowsFrom(data, k) ==
    IF k > Len(BucketOrder) THEN <<>>
    ELSE LET status == BucketOrder[k] IN
         (IF status \in DOMAIN data
          THEN [j \in 1 .. Len(data[status]) |-> CsvRow(data[status][j], status)]
          ELSE <<>>) \o CsvRowsFrom(data, k + 1)

\* Mutant of GenerateCsv: the lists are emptied while they are written.
GenerateCsvDraining(data) ==
    [out |-> <<"URL,Status">> \o CsvRowsFrom(data, 1),
     data |-> [k \in DOMAIN data |-> <<>>]]

\* Mutant of GenerateCsv: one row per bucket instead of one per URL.
GenerateCsvOneRowPerBucket(data) ==
    [out |-> <<"URL,Status">> \o
        [k \in 1 .. Len(BucketOrder) |-> BucketOrder[k]],
     data |-> data]

\* generate_csv(data): the lines of the text it returns, and data as the
\* call leaves it.
GenerateCsv(data) ==
    [out |-> <<"URL,Status">> \o CsvRowsFrom(data, 1), data |-> data]

\* generate_json(data): the members of the JSON object it returns, in the
\* order of the dict, and data as the call leaves it.
GenerateJson(data) ==
    [out |-> [k \in 1 .. Len(BucketOrder) |->
                [key |-> BucketOrder[k],
                 value |-> IF BucketOrder[k] \in DOMAIN data
                           THEN [j \in 1 .. Len(data[BucketOrder[k]]) |->
                                    UrlText[data[BucketOrder[k]][j]]]
                           ELSE <<>>]],
     data |-> data]

\* jsonify({"error": ...}), 400
ErrorResponse(msg) == [NoResponse EXCEPT !.code = 400, !.error = msg]

\* The worlds the uploads are checked in.
HandlerWorlds == {5, Len(Exits) - 1}

\* A POST to /extract has arrived; check_urls has not been called.
HandlerInit ==
    /\ request \in Requests
    /\ world \in HandlerWorlds
    /\ handler = NewHandler
    /\ response = NoResponse
    /\ other = NoOther
    /\ urls = <<>>
    /\ pc = "idle"
    /\ semaphore = NewSemaphore(0)
    /\ tasks = <<>>
    /\ started = 0
    /\ results = <<>>
    /\ status_results = [k \in {} |-> <<>>]
    /\ now = 0

batch == <<urls, world, pc, semaphore, tasks, started, results, status_results, now>>

\* `if "files" not in request.files: return ..., 400`
RejectNoFiles ==
    /\ handler.pc = "called"
    /\ NoFiles(request)
    /\ response' = ErrorResponse("No file uploaded")
    /\ handler' = [handler EXCEPT !.pc = "responded"]
    /\ UNCHANGED <<request, other, batch>>

\* `if not files or all(...): return ..., 400`
RejectNoSelection ==
    /\ handler.pc = "called"
    /\ ~NoFiles(request)
    /\ NoSelection(request.files)
    /\ response' = ErrorResponse("No selected file")
    /\ handler' = [handler EXCEPT !.pc = "responded"]
    /\ UNCHANGED <<request, other, batch>>

\* The files are read, the URLs found and deduplicated, a new event loop is
\* made and check_urls(unique_urls) runs on it up to its await of gather.
Extract ==
    /\ handler.pc = "called"
    /\ ~NoFiles(request)
    /\ ~NoSelection(request.files)
    /\ \E unique \in PyLists(PySet(ExtendAll(request.files, 1))) :
        /\ handler' = [pc |-> "checking", urls |-> ExtendAll(request.files, 1),
                       unique_urls |-> unique, loops |-> handler.loops + 1]
        /\ urls' = unique
        /\ tasks' = CreateTasks(unique)
    /\ pc' = "gather"
    /\ semaphore' = NewSemaphore(SemaphoreLimit)
    /\ started' = 0
    /\ UNCHANGED <<world, results, status_results, now, request, response, other>>

\* check_urls has returned: the CSV and the JSON are generated and the
\* response is made.
Respond ==
    /\ handler.pc = "checking"
    /\ pc = "returned"
    /\ LET csv == GenerateCsv(status_results)
           json == GenerateJson(csv.data)
       IN /\ response' = [code |-> 200, error |-> "",
                          urls |-> handler.urls, unique_urls |-> handler.unique_urls,
                          status_results |-> json.data,
                          csv_data |-> csv.out, json_data |-> json.out]
          /\ status_results' = json.data
    /\ handler' = [handler EXCEPT !.pc = "responded"]
    /\ UNCHANGED <<urls, world, pc, semaphore, tasks, started, results, now, request, other>>

\* An upload has at most four distinct URLs, so no probe of its batch ever
\* queues for the gate and Resume has no part.
HandlerNext ==
    \/ RejectNoFiles
    \/ RejectNoSelection
    \/ Extract
    \/ Start
    \/ \E i \in 1 .. Len(tasks) : Resolve(i)
    \/ Gather
    \/ Categorize
    \/ Respond

HandlerSpec == HandlerInit /\ [][HandlerNext]_vars

----------------------------------------------------------------------------
(* Two batches at once.  The development server handles every request on   *)
(* a thread of its own, and extract_urls makes a new event loop for every   *)
(* request, so two uploads give two calls of check_urls that run side by    *)
(* side.  The first call is the batch above, the second is `other`.         *)

\* Mutant of GateOf: one semaphore of the module serves every call.
GateOfModule(call) == 1

\* The semaphore the probes of a call use: the one the call created.
GateOf(call) == call

\* The semaphore number g.
Gate(g) == IF g = 1 THEN semaphore ELSE other.semaphore

\* The name of the j-th task of the second call in a deque of waiters.
OtherId(j) == MaxUrls + j

\* The two calls, the first with a batch that overfills its gate by one.
TwoInit ==
    /\ Init
    /\ urls = Batch(SemaphoreLimit + 1)
    /\ world \in LiveWorlds

\* The second call of check_urls creates its semaphore and its coroutines.
OtherCall ==
    /\ other.pc = "none"
    /\ \E n \in 1 .. MaxOtherUrls :
        other' = [pc |-> "gather", urls |-> Batch(n),
                  semaphore |-> NewSemaphore(SemaphoreLimit),
                  tasks |-> CreateTasks(Batch(n)), started |-> 0,
                  status_results |-> [k \in {} |-> <<>>]]
    /\ UNCHANGED <<batch, request, handler, response>>

\* The semaphore number g becomes sem, and the second call's j-th task t.
OtherUpdate(g, sem, j, t) ==
    /\ semaphore' = IF g = 1 THEN sem ELSE semaphore
    /\ other' = [other EXCEPT !.semaphore = IF g = 1 THEN @ ELSE sem,
                              !.tasks[j] = t,
                              !.started = IF t.pc = "done" THEN @ ELSE @ + 1]
    /\ UNCHANGED <<urls, world, pc, tasks, started, results, status_results, now>>
    /\ UNCHANGED <<request, handler, response>>

\* The first step of the next task of the second call: as Start.
OtherStart ==
    /\ other.pc = "gather"
    /\ other.started < Len(other.tasks)
    /\ LET j == other.started + 1
           g == GateOf(2)
       IN IF ~Locked(Gate(g))
          THEN OtherUpdate(g, TakeSlot(Gate(g)), j, SendRequest(other.tasks[j]))
          ELSE OtherUpdate(g, Enqueue(Gate(g), OtherId(j)), j,
                           [other.tasks[j] EXCEPT !.pc = "waiting"])

\* The request of a task of the second call ends: as Resolve.
OtherResolve(j) ==
    /\ other.pc = "gather"
    /\ other.tasks[j].pc = "request"
    /\ OtherUpdate(GateOf(2), Release(Gate(GateOf(2))), j,
            Finish(other.tasks[j],
                   FetchStatus(other.tasks[j].url, ExitOf(other.tasks[j].url, world))))

\* gather returns in the second call, which categorises and returns.
OtherReturn ==
    /\ other.pc = "gather"
    /\ AllDone(other.tasks)
    /\ other' = [other EXCEPT !.pc = "returned",
                              !.status_results = Categorise(GatherResults(other.tasks))]
    /\ UNCHANGED <<batch, request, handler, response>>

\* The second batch is smaller than its gate, so its probes never queue and
\* need no step like Resume.
TwoNext ==
    \/ Next
    \/ OtherCall
    \/ OtherStart
    \/ \E j \in 1 .. Len(other.tasks) : OtherResolve(j)
    \/ OtherReturn

TwoSpec == TwoInit /\ [][TwoNext]_vars

----------------------------------------------------------------------------
(* Vocabulary of the properties *)

TaskIds == 1 .. Len(tasks)

\* The task has sent its request and the request has not ended.
InFlight(i) == tasks[i].pc = "request"

\* The task was handed a slot by a release and has not run since.
Woken(i) == tasks[i].pc = "waiting" /\ IsWaiter(semaphore, i, TRUE)

\* The task is suspended in acquire() and no slot was handed to it.
Queued(i) == tasks[i].pc = "waiting" /\ IsWaiter(semaphore, i, FALSE)

\* The task owns one of the slots of the gate.
HoldsSlot(i) == InFlight(i) \/ Woken(i)

Holders == {i \in TaskIds : HoldsSlot(i)}

Range(f) == {f[k] : k \in DOMAIN f}

Returned == pc = "returned"

\* The request of the i-th URL ends in an exception.
Fails(i) == ExitOf(urls[i], world).kind = "raise"

----------------------------------------------------------------------------
\* C1: at every moment of a batch at most SemaphoreLimit (10) probes hold a
\* slot of the gate, however many URLs the batch has and however the probe
\* tasks interleave.
C1_AtMostLimitInFlight == Cardinality(Holders) <= SemaphoreLimit

\* The gate is full of requests in flight while another probe is queued.
C1_Witness ==
    /\ Cardinality({i \in TaskIds : InFlight(i)}) = SemaphoreLimit
    /\ \E i \in TaskIds : Queued(i)

----------------------------------------------------------------------------
\* C2: every input URL gets exactly one request and exactly one result,
\* which carries that URL and the outcome of that URL's own request; no
\* probe sends a second request.
C2_OneProbePerUrl ==
    /\ \A i \in TaskIds :
        /\ tasks[i].requests <= 1
        /\ tasks[i].url = urls[i]
        /\ tasks[i].pc = "done" => tasks[i].requests = 1
    /\ pc \in {"categorize", "returned"} =>
        /\ Len(results) = Len(urls)
        /\ \A i \in 1 .. Len(urls) :
            /\ Cardinality({k \in 1 .. Len(results) : results[k].url = urls[i]}) = 1
            /\ \A k \in 1 .. Len(results) :
                results[k].url = urls[i] =>
                    /\ tasks[i].requests = 1
                    /\ results[k].status =
                          FetchStatus(urls[i], ExitOf(urls[i], world)).status

\* gather has returned the results of a batch larger than the gate, some of
\* whose requests failed.
C2_Witness ==
    /\ pc = "categorize"
    /\ Len(results) > SemaphoreLimit
    /\ \E k \in 1 .. Len(results) : ~results[k].status.isint
    /\ \E k \in 1 .. Len(results) : results[k].status.isint

----------------------------------------------------------------------------
\* C3: check_urls categorises and returns only after every probe of the
\* batch has resolved: while it categorises or has returned, no probe is
\* unstarted, queued for the gate or in flight; and no bucket exists before.
C3_ReportAfterAllResolved ==
    /\ pc \in {"categorize", "returned"} =>
        /\ started = Len(tasks)
        /\ \A i \in TaskIds : tasks[i].pc = "done"
        /\ Len(semaphore.waiters) = 0
    /\ DOMAIN status_results # {} => pc = "returned"

\* A batch in which probes had to queue has reached the categorisation.
C3_Witness ==
    /\ pc = "categorize"
    /\ Len(tasks) = SemaphoreLimit + 2
    /\ DOMAIN status_results = {}

----------------------------------------------------------------------------
\* The bucket the table of the specification gives to a status.
TableBucket(status) ==
    CASE status.isint /\ status.n = 200         -> "200"
      [] status.isint /\ status.n = 301         -> "301_302"
      [] status.isint /\ status.n = 302         -> "301_302"
      [] status.isint /\ status.n = 403         -> "403"
      [] status.isint /\ status.n = 404         -> "404"
      [] status.isint /\ status.n > 499         -> "500+"
      [] OTHER                                  -> "error"

\* The buckets of the report that hold the URL u.
BucketsOf(u) == {k \in DOMAIN status_results : u \in Range(status_results[k])}

\* The outcome of the specification a returned status stands for.
OutcomeOf(status) ==
    IF status.isint THEN "StatusCode"
    ELSE IF status.s = "timeout" THEN "Timeout"
    ELSE IF status.s = "error" THEN "NetworkError"
    ELSE IF \E k \in 1 .. Len(Exits) : status.s = FormatError(Exits[k].msg)
    THEN "NetworkError"
    ELSE "none"

\* C4: the failure of a probe never makes the batch fail and never takes
\* another probe out of the batch: check_urls never raises, and the report
\* it returns holds every URL of the batch, each under the bucket of its own
\* outcome, whichever of the other requests failed.
C4_FailureIsIsolated ==
    /\ pc # "raised"
    /\ Returned =>
         \A i \in 1 .. Len(urls) :
            BucketsOf(urls[i]) =
                {IF Fails(i) THEN "error"
                 ELSE TableBucket(PyInt(ExitOf(urls[i], world).status))}

\* A batch larger than the gate has returned although a request timed out,
\* one was refused and one failed otherwise.
C4_Witness ==
    /\ Returned
    /\ Len(urls) > SemaphoreLimit
    /\ \E i \in 1 .. Len(urls) : ExitOf(urls[i], world).exc = "TimeoutError"
    /\ \E i \in 1 .. Len(urls) : ExitOf(urls[i], world).exc = "ClientConnectorError"
    /\ \E i \in 1 .. Len(urls) : ExitOf(urls[i], world).exc = "UnicodeError"
    /\ \E i \in 1 .. Len(urls) : ExitOf(urls[i], world).status = 200

----------------------------------------------------------------------------
\* C5: fetch_status never lets an error through: however the request ends,
\* the task ends with a return value, which is one outcome among
\* StatusCode, Timeout and NetworkError: the status of the response, Timeout
\* for a timeout, NetworkError for every other failure.
C5_EveryExitIsAnOutcome ==
    \A i \in TaskIds :
        /\ tasks[i].pc # "raised"
        /\ tasks[i].pc = "done" =>
            LET exit == ExitOf(urls[i], world) IN
            /\ OutcomeOf(tasks[i].status) =
                  IF exit.kind = "response" THEN "StatusCode"
                  ELSE IF exit.exc = "TimeoutError" THEN "Timeout"
                  ELSE "NetworkError"
            /\ exit.kind = "response" => tasks[i].status.n = exit.status

\* A probe whose request raised an exception that is neither a client error
\* nor a timeout is done.
C5_Witness ==
    \E i \in TaskIds :
        /\ tasks[i].pc = "done"
        /\ ExitOf(urls[i], world).exc = "UnicodeError"
        /\ tasks[i].status.s = "error: label too long"

----------------------------------------------------------------------------
\* C6: every probe acquires one slot before it sends its request and
\* releases it once before it completes, whatever its outcome; the free
\* count of the gate stays within 0 .. 10, is 10 less the number of slot
\* holders, and is 10 again when the batch returns.
C6_SlotAcquiredAndReleasedOnce ==
    /\ \A i \in TaskIds :
        /\ tasks[i].acquired <= 1
        /\ tasks[i].released <= tasks[i].acquired
        /\ tasks[i].requests <= tasks[i].acquired
        /\ InFlight(i) => tasks[i].acquired = 1 /\ tasks[i].released = 0
        /\ tasks[i].pc = "done" => tasks[i].acquired = 1 /\ tasks[i].released = 1
    /\ semaphore.value \in 0 .. SemaphoreLimit
    /\ semaphore.value = SemaphoreLimit - Cardinality(Holders)
    /\ pc \in {"categorize", "returned"} => semaphore.value = SemaphoreLimit

\* A probe that queued for the gate and whose request then failed has
\* released its slot, and the batch has returned.
C6_Witness ==
    /\ Returned
    /\ semaphore.value = SemaphoreLimit
    /\ \E i \in TaskIds : i > SemaphoreLimit /\ Fails(i) /\ tasks[i].released = 1

----------------------------------------------------------------------------
\* C7: the categorisation puts every result into the one bucket the table
\* gives: 200 -> "200"; 301, 302 -> "301_302"; 403 -> "403"; 404 -> "404";
\* an int >= 500 -> "500+"; any other status code, "timeout" and the error
\* strings -> "error".
C7_BucketsFollowTable ==
    Returned =>
        \A k \in 1 .. Len(results) :
            BucketsOf(results[k].url) = {TableBucket(results[k].status)}

\* A report that has a URL in every bucket, with 201, a timeout and a status
\* above 599 among the outcomes.
C7_Witness ==
    /\ Returned
    /\ \A b \in BucketKeys : Len(status_results[b]) > 0
    /\ \E k \in 1 .. Len(results) : results[k].status = PyInt(201)
    /\ \E k \in 1 .. Len(results) : results[k].status = PyInt(999)
    /\ \E k \in 1 .. Len(results) : results[k].status = PyStr("timeout")

----------------------------------------------------------------------------
RECURSIVE SumLen(_, _)
\* The number of entries of the buckets ks of the report.
SumLen(sr, ks) ==
    IF ks = {} THEN 0
    ELSE LET k == CHOOSE x \in ks : TRUE IN Len(sr[k]) + SumLen(sr, ks \ {k})

\* The places (bucket, position) of the report where the URL u stands.
PlacesOf(u) ==
    {p \in UNION {{<<k, j>> : j \in 1 .. Len(status_results[k])} : k \in DOMAIN status_results} :
        status_results[p[1]][p[2]] = u}

\* C8: the buckets of the report partition the input: every input URL stands
\* at exactly one place of exactly one bucket, the buckets hold nothing else,
\* and their sizes add up to the number of input URLs.
C8_ReportPartitionsInput ==
    Returned =>
        /\ \A i \in 1 .. Len(urls) : Cardinality(PlacesOf(urls[i])) = 1
        /\ \A k \in DOMAIN status_results : Range(status_results[k]) \subseteq Range(urls)
        /\ SumLen(status_results, DOMAIN status_results) = Len(urls)

\* The report of a full-size batch, with several URLs in one bucket.
C8_Witness ==
    /\ Returned
    /\ Len(urls) = MaxUrls
    /\ \E k \in BucketKeys : Len(status_results[k]) >= 3

----------------------------------------------------------------------------
\* C9: a returned report has exactly the six keys "200", "301_302", "403",
\* "404", "500+", "error"; for an empty list of URLs all six are empty, and
\* the batch has taken no slot of the gate and sent no request.
C9_SixKeysAlways ==
    /\ Returned =>
        /\ DOMAIN status_results = {"200", "301_302", "403", "404", "500+", "error"}
        /\ Len(urls) = 0 => \A k \in DOMAIN status_results : status_results[k] = <<>>
    /\ Len(urls) = 0 =>
        /\ semaphore = NewSemaphore(SemaphoreLimit)
        /\ started = 0
        /\ \A i \in TaskIds : tasks[i].requests = 0 /\ tasks[i].acquired = 0

\* The empty batch has returned.
C9_Witness == Returned /\ Len(urls) = 0 /\ DOMAIN status_results # {}

----------------------------------------------------------------------------
\* C10: under fair scheduling, and with every request ending, a batch of
\* any size runs to completion: every probe is admitted to the gate and
\* resolves, and check_urls returns its report.
C10_BatchReturns ==
    <>(/\ Returned
       /\ \A i \in TaskIds : tasks[i].pc = "done" /\ tasks[i].acquired = 1
       /\ DOMAIN status_results = BucketKeys)

\* A batch two probes larger than the gate has returned; the last probe was
\* queued behind another one.
C10_Witness ==
    /\ Returned
    /\ Len(tasks) >= SemaphoreLimit + 2
    /\ \A i \in TaskIds : tasks[i].pc = "done"

----------------------------------------------------------------------------
\* C11: a probe whose server does not answer within RequestTimeout (5)
\* seconds does not hang: its request is never in flight for longer, it ends
\* after exactly 5 seconds with the status "timeout", which is the Timeout
\* outcome and not NetworkError, the probe has released its slot, and its
\* URL is reported under "error".
C11_SlowRequestTimesOut ==
    \A i \in TaskIds :
        /\ InFlight(i) => Elapsed(tasks[i]) <= RequestTimeout
        /\ (tasks[i].pc = "done" /\ ServerLatency(urls[i], world) >= RequestTimeout) =>
            /\ tasks[i].status = PyStr("timeout")
            /\ OutcomeOf(tasks[i].status) = "Timeout"
            /\ tasks[i].ended - tasks[i].sent = RequestTimeout
            /\ tasks[i].released = 1
            /\ ~HoldsSlot(i)
            /\ Returned => BucketsOf(urls[i]) = {"error"}

\* A batch larger than the gate has returned, and a probe timed out on a
\* server that would have answered with a status later.
C11_Witness ==
    /\ Returned
    /\ Len(urls) > SemaphoreLimit
    /\ \E i \in TaskIds :
        /\ ExitOf(urls[i], world).kind = "response"
        /\ ServerLatency(urls[i], world) > RequestTimeout
        /\ tasks[i].status = PyStr("timeout")

----------------------------------------------------------------------------
\* C19: the timer of a request runs only while the probe holds a slot.  A
\* probe that has not been admitted has no result; a probe ends in "timeout"
\* only after RequestTimeout seconds in flight; and a probe whose server
\* answers within the timeout gets the server's outcome, however long it
\* had been queued before.
C19_QueueTimeIsNotTimeout ==
    \A i \in TaskIds :
        /\ tasks[i].pc \in {"created", "waiting"} =>
            /\ tasks[i].status = PyStr("")
            /\ tasks[i].requests = 0
            /\ tasks[i].released = 0
        /\ tasks[i].pc = "done" =>
            /\ tasks[i].acquired = 1
            /\ tasks[i].status = PyStr("timeout") =>
                 tasks[i].ended - tasks[i].sent >= RequestTimeout
            /\ ServerLatency(urls[i], world) < RequestTimeout =>
                 tasks[i].status = FetchStatus(urls[i], ExitOf(urls[i], world)).status

\* A probe was admitted after RequestTimeout seconds or more in the queue
\* and got the status of its server.
C19_Witness ==
    \E i \in TaskIds :
        /\ tasks[i].pc = "done"
        /\ tasks[i].sent > 0
        /\ tasks[i].sent >= RequestTimeout
        /\ tasks[i].status.isint

----------------------------------------------------------------------------
\* The index of the URL u in the input list.
IndexOf(u) == CHOOSE i \in 1 .. Len(urls) : urls[i] = u

\* C18: the report is a function of the input list and of the outcome of
\* each URL: every bucket holds the input URLs whose outcome the table maps
\* to it, in the order of the input list, in whatever order the probes were
\* admitted and completed.
C18_BucketsKeepInputOrder ==
    Returned =>
        \A k \in BucketKeys :
            status_results[k] =
                SelectSeq(urls, LAMBDA u : TableBucket(tasks[IndexOf(u)].status) = k)

\* Two URLs of one bucket whose probes completed in the reverse of their
\* input order, the later one after queueing for the gate.
C18_Witness ==
    /\ Returned
    /\ \E k \in BucketKeys :
        \E a, b \in 1 .. Len(status_results[k]) :
            /\ a < b
            /\ tasks[IndexOf(status_results[k][a])].ended >
                    tasks[IndexOf(status_results[k][b])].ended
    /\ \E i \in TaskIds : tasks[i].sent > 0

----------------------------------------------------------------------------
\* The URLs that stand in the texts of the uploaded files.
Uploaded ==
    UNION {{request.files[k].text[j] : j \in 1 .. Len(request.files[k].text)} :
              k \in 1 .. Len(request.files)} \ {0}

\* C13: the list extract_urls hands to check_urls has no two equal URLs and
\* has exactly the URLs that stand in the uploaded files; URLs are compared
\* as they are written, so URLs that differ only by case or by a trailing
\* slash are all in the list, and each gets its own probe.
C13_ExactDeduplication ==
    (handler.pc = "checking" \/ response.code = 200) =>
        /\ urls = handler.unique_urls
        /\ \A i, j \in 1 .. Len(urls) : urls[i] = urls[j] => i = j
        /\ Range(urls) = Uploaded
        /\ Len(tasks) = Len(urls)
        /\ \A i \in 1 .. Len(urls) :
            /\ tasks[i].url = urls[i]
            /\ Returned => tasks[i].requests = 1

\* An upload in which a URL stands three times, and the same URL with a
\* trailing slash once: both have been probed, once each.
C13_Witness ==
    /\ Returned
    /\ Len(handler.urls) > Len(urls)
    /\ \E i, j \in 1 .. Len(urls) :
        /\ urls[i] # urls[j]
        /\ Normalised(urls[i]) = Normalised(urls[j])
        /\ tasks[i].requests = 1 /\ tasks[j].requests = 1

----------------------------------------------------------------------------
\* C14: for an upload without the "files" field, without files, or with
\* unnamed files only, extract_urls answers 400 and check_urls is never
\* called: no event loop and no gate are made and no probe exists.
C14_EmptyUploadIsRejected ==
    (~request.has_files \/ \A k \in 1 .. Len(request.files) : request.files[k].filename = "") =>
        /\ pc = "idle"
        /\ handler.loops = 0
        /\ semaphore.value # SemaphoreLimit
        /\ tasks = <<>> /\ started = 0 /\ urls = <<>>
        /\ handler.pc = "responded" =>
            /\ response.code = 400
            /\ response.error \in {"No file uploaded", "No selected file"}
            /\ DOMAIN response.status_results = {}

\* An upload of unnamed parts only, one of which has a URL in it, has been
\* answered with 400.
C14_Witness ==
    /\ handler.pc = "responded"
    /\ response.code = 400
    /\ request.has_files
    /\ \E k \in 1 .. Len(request.files) : request.files[k].text # <<>>

----------------------------------------------------------------------------
\* The (bucket, position) pairs of a report.
Places(report) ==
    UNION {{<<k, j>> : j \in 1 .. Len(report[k])} : k \in DOMAIN report}

\* C15: the CSV starts with the row URL,Status, which is followed by exactly
\* one row for every URL of the report, the URL with the name of its bucket;
\* there are as many data rows as URLs in the buckets.
C15_CsvHasOneRowPerUrl ==
    response.code = 200 =>
        LET csv == response.csv_data
            report == response.status_results
        IN /\ Len(csv) >= 1 /\ csv[1] = "URL,Status"
           /\ Len(csv) - 1 = Cardinality(Places(report))
           /\ \A p \in Places(report) :
                Cardinality({i \in 2 .. Len(csv) :
                    csv[i] = CsvRow(report[p[1]][p[2]], p[1])}) = 1
           /\ \A i \in 2 .. Len(csv) :
                \E p \in Places(report) : csv[i] = CsvRow(report[p[1]][p[2]], p[1])

\* The CSV of a report with URLs in two buckets or more, one of them a URL
\* with a comma.
C15_Witness ==
    /\ response.code = 200
    /\ Len(response.csv_data) >= 4
    /\ Cardinality({k \in BucketKeys : response.status_results[k] # <<>>}) >= 2
    /\ \E i \in 1 .. Len(response.csv_data) :
        response.csv_data[i] = "\"www.b.org/?q=1,2\",error"

----------------------------------------------------------------------------
\* C17: the report is not changed after check_urls has returned it:
\* generate_csv and generate_json leave it as the categorisation built it,
\* and the status_results of the response is that report, from which the CSV
\* and the JSON of the response were made.
C17_ReportIsNotMutated ==
    /\ Returned => status_results = Categorise(results)
    /\ response.code = 200 =>
        /\ response.status_results = status_results
        /\ response.status_results = Categorise(results)
        /\ response.csv_data = GenerateCsv(response.status_results).out
        /\ response.json_data = GenerateJson(response.status_results).out

\* The response for an upload with three URLs or more.
C17_Witness ==
    /\ response.code = 200
    /\ Len(results) >= 3
    /\ \E k \in BucketKeys : Len(response.status_results[k]) >= 2

----------------------------------------------------------------------------
\* The tasks of the second call that own a slot.
OtherHolders ==
    {j \in 1 .. Len(other.tasks) :
        \/ other.tasks[j].pc = "request"
        \/ other.tasks[j].pc = "waiting" /\ IsWaiter(other.semaphore, OtherId(j), TRUE)}

\* The names of the tasks in the deque of a semaphore.
WaiterIds(sem) == {sem.waiters[k].task : k \in 1 .. Len(sem.waiters)}

\* C16: every call of check_urls has a gate of its own.  When two batches
\* run at once, each has at most 10 probes in flight, the free count of each
\* gate is 10 less the slot holders of its own batch, and only probes of its
\* own batch queue at a gate: no probe waits for, takes or releases a slot of
\* the other batch's gate.
C16_GatePerBatch ==
    /\ Cardinality(Holders) <= SemaphoreLimit
    /\ Cardinality(OtherHolders) <= SemaphoreLimit
    /\ semaphore.value = SemaphoreLimit - Cardinality(Holders)
    /\ other.pc # "none" =>
            other.semaphore.value = SemaphoreLimit - Cardinality(OtherHolders)
    /\ WaiterIds(semaphore) \subseteq TaskIds
    /\ WaiterIds(other.semaphore) \subseteq {OtherId(j) : j \in 1 .. Len(other.tasks)}
    /\ \A j \in 1 .. Len(other.tasks) : other.tasks[j].pc # "waiting"

\* The gate of the first batch is full and one of its probes is queued,
\* while a probe of the second batch is in flight: 11 requests at once.
C16_Witness ==
    /\ Cardinality({i \in TaskIds : InFlight(i)}) = SemaphoreLimit
    /\ \E i \in TaskIds : Queued(i)
    /\ \E j \in 1 .. Len(other.tasks) :
        other.tasks[j].pc = "request" /\ other.tasks[j].acquired = 1

====
